---- MODULE Spec2Model ----
(***************************************************************************)
(* Model of src/data_ingestion.py: the module-level logging setup and the  *)
(* ingestion run  main() = load_params -> test_size -> load_data ->        *)
(* preprocess_data -> train_test_split -> save_data, with the exceptions   *)
(* each step can raise and the single handler in main.                     *)
(*                                                                         *)
(* One process is modelled.  The content of params.yaml and the CSV        *)
(* document behind the data URL are inputs of the process: they are drawn  *)
(* when they are first read and stay the same for the rest of a behaviour, *)
(* so that repeated runs of main see identical inputs.  Transient failures *)
(* (network, disk) are drawn anew in every run.                            *)
(***************************************************************************)
EXTENDS Integers, Sequences, FiniteSets

VARIABLES
    pc,         \* position of the process: "unloaded", "idle", a step of main, "except", "crashed"
    handlers,   \* logger.handlers of the "data_ingestion" logger
    reloaded,   \* whether the module-level setup has been executed more than once
    paramsFile, \* what params.yaml holds (drawn at the first read)
    remote,     \* the document behind data_url (drawn at the first fetch)
    rng,        \* the permutation RandomState(2) yields for this row count (drawn at the first split)
    fs,         \* data/raw: the directory and the two output files
    params,     \* main's local params
    test_size,  \* main's local test_size
    df,         \* main's local df
    final_df,   \* main's local final_df
    train_df,   \* main's local train_df
    test_df,    \* main's local test_df
    exc,        \* the exception raised in this run of main (kept after it is handled)
    log,        \* the records logged since this run of main began
    stdout,     \* what this run of main printed
    calls,      \* the steps this run of main has started, in order
    done,       \* the steps this run of main has completed without error, in order
    wrote,      \* the output files this run of main has written
    firstOut,   \* the two files as the first complete run of the behaviour wrote them
    reruns      \* whether a later run has completed as well

vars == <<pc, handlers, reloaded, paramsFile, remote, rng, fs, params, test_size, df,
          final_df, train_df, test_df, exc, log, stdout, calls, done, wrote, firstOut,
          reruns>>

run_locals == <<params, test_size, df, final_df, train_df, test_df>>

(***************************************************************************)
(* Bounds of the model.                                                    *)
(***************************************************************************)
MaxRows == 3      \* a dataset has 0..MaxRows rows
Den == 5          \* test_size ranges over the floats 0/Den .. Den/Den

RowKeys == {1, 2} \* the distinct row contents a dataset may hold

(***************************************************************************)
(* The values of the program.                                              *)
(***************************************************************************)
None == [kind |-> "None"]

NoExc == [type |-> "none", msg |-> <<>>, origin |-> "none"]

NoFile == [exists |-> FALSE, header |-> <<>>, lines |-> <<>>]

StaleFile == [exists |-> TRUE, header |-> <<"stale">>, lines |-> <<>>]

Range(s) == {s[i] : i \in DOMAIN s}

\* The columns the source document may carry, in the order of its header line.
Header == <<"v1", "v2", "Unnamed: 2", "Unnamed: 3", "Unnamed: 4", "extra">>

ColNo(c) == CHOOSE i \in DOMAIN Header : Header[i] = c

\* The cell of the row with content key k under column c.
Cell(k, c) == k * 10 + ColNo(c)

SubHeader(S) == SelectSeq(Header, LAMBDA c : c \in S)

RowSeqs == UNION {[1..n -> RowKeys] : n \in 0..MaxRows}

\* A CSV document: a header line and the data lines.
CsvDoc(cols, keys) ==
    [kind |-> "csv", header |-> cols,
     lines |-> [i \in DOMAIN keys |-> [j \in DOMAIN cols |-> Cell(keys[i], cols[j])]]]

\* The documents the URL may serve: text that is not CSV, or a CSV document with
\* any of the columns of Header, at least one of which outlives the normalization.
Documents ==
    {CsvDoc(SubHeader(S), keys) :
        S \in {T \in SUBSET Range(Header) : T \cap {"v1", "v2", "extra"} # {}},
        keys \in RowSeqs}
        \cup {[kind |-> "malformed"]}

Float(k) == [kind |-> "float", num |-> k, den |-> Den]

TestSizes == {Float(k) : k \in 0..Den}

Dict0 == [kind |-> "dict", keys |-> {}]

ParamsNoTS == [kind |-> "dict", keys |-> {"data_ingestion"}, data_ingestion |-> Dict0]

ParamsTS(v) ==
    [kind |-> "dict", keys |-> {"data_ingestion"},
     data_ingestion |-> [kind |-> "dict", keys |-> {"test_size"}, test_size |-> v]]

\* What params.yaml may be: absent, unreadable, not YAML, or a YAML document.
ParamsFiles ==
    {[kind |-> "missing"], [kind |-> "unreadable"], [kind |-> "malformed"]}
        \cup {[kind |-> "yaml", value |-> v] :
                 v \in {None, Dict0, ParamsNoTS} \cup {ParamsTS(t) : t \in TestSizes}}

Unread == [kind |-> "unread"]

(***************************************************************************)
(* Logging.                                                                *)
(***************************************************************************)
StreamHandler == [kind |-> "stream"]

FileHandler == [kind |-> "file"]

\* A faulty variant of AddHandlers, for C9: the handlers added without the guard.
AddHandlersUnguarded(hs) == hs \o <<StreamHandler, FileHandler>>

\* Lines 24-26: the handlers are added only to a logger that has none.
AddHandlers(hs) == IF hs = <<>> THEN <<StreamHandler, FileHandler>> ELSE hs

\* logger.debug / logger.error: one record, handed to every handler of the logger.
Emit(l, level, by, fmt, arg) ==
    Append(l, [level |-> level, by |-> by, fmt |-> fmt, arg |-> arg,
               sinks |-> [i \in DOMAIN handlers |-> handlers[i].kind]])

(***************************************************************************)
(* Exceptions.  origin names the function whose code raised it.            *)
(***************************************************************************)
Exc(type, msg, origin) == [type |-> type, msg |-> msg, origin |-> origin]

Ok(v) == [ok |-> TRUE, val |-> v]

Fail(e) == [ok |-> FALSE, exc |-> e]

\* The exception classes of the model; each is a subclass of Exception.
ExceptionTypes ==
    {"FileNotFoundError", "PermissionError", "YAMLError", "TypeError", "KeyError",
     "ParserError", "URLError", "ValueError", "OSError"}

\* A faulty variant of Catches, for C2: "except OSError".
CatchesNothingButOSError(type) == type \in {"FileNotFoundError", "PermissionError", "OSError"}

\* Line 87: "except Exception" matches every subclass of Exception.
Catches(type) == type \in ExceptionTypes

\* A faulty variant of StageCatches, for C4: preprocess_data without its except clause.
StageCatchesWithoutPreprocess(fn, type) ==
    CASE fn = "load_params" -> type \in {"FileNotFoundError", "YAMLError"}
      [] fn = "load_data" -> TRUE
      [] fn = "save_data" -> TRUE
      [] OTHER -> FALSE

\* The except clauses of the helpers (lines 35-40, 47-52, 60-62, 71-73): which
\* exception classes a helper logs before raising them again.
StageCatches(fn, type) ==
    CASE fn = "load_params" -> type \in {"FileNotFoundError", "YAMLError"}
      [] fn = "load_data" -> TRUE
      [] fn = "preprocess_data" -> type = "KeyError"
      [] fn = "save_data" -> TRUE
      [] OTHER -> FALSE

\* The record a helper's except clause logs for exception e.
StageErrorFmt(fn, e) ==
    CASE fn = "load_params" /\ e.type = "FileNotFoundError" -> "File not found: %s"
      [] fn = "load_params" -> "YAML error: %s"
      [] fn = "load_data" /\ e.type = "ParserError" -> "Failed to parse the CSV file: %s"
      [] fn = "load_data" -> "Unexpected error occurred while loading the data: %s"
      [] fn = "preprocess_data" -> "Missing column in the dataframe: %s"
      [] OTHER -> "Unexpected error occurred while saving the data: %s"

StageErrorArg(fn, e) ==
    IF fn = "load_params" /\ e.type = "FileNotFoundError" THEN <<"params.yaml">> ELSE e.msg

\* A helper raising e: logged when one of its except clauses matches, then raised again.
LogRaise(l, fn, e) ==
    IF StageCatches(fn, e.type)
    THEN Emit(l, "ERROR", fn, StageErrorFmt(fn, e), StageErrorArg(fn, e))
    ELSE l

(***************************************************************************)
(* load_params and the look-up of test_size.                               *)
(***************************************************************************)
\* A faulty variant of LoadParamsOutcome, for C3: a YAML error answered with a
\* default document instead of being raised.
LoadParamsDefaulting(file) ==
    CASE file.kind = "missing" ->
            Fail(Exc("FileNotFoundError", <<"No such file or directory", "params.yaml">>, "load_params"))
      [] file.kind = "unreadable" ->
            Fail(Exc("PermissionError", <<"Permission denied", "params.yaml">>, "load_params"))
      [] file.kind = "malformed" -> Ok(ParamsTS(Float(1)))
      [] OTHER -> Ok(file.value)

\* Lines 31-32: open the file and yaml.safe_load it.
LoadParamsOutcome(file) ==
    CASE file.kind = "missing" ->
            Fail(Exc("FileNotFoundError", <<"No such file or directory", "params.yaml">>, "load_params"))
      [] file.kind = "unreadable" ->
            Fail(Exc("PermissionError", <<"Permission denied", "params.yaml">>, "load_params"))
      [] file.kind = "malformed" ->
            Fail(Exc("YAMLError", <<"while parsing", "params.yaml">>, "load_params"))
      [] OTHER -> Ok(file.value)

\* obj[key] of Python: None is not subscriptable, a dict raises KeyError(key).
GetItem(obj, key) ==
    CASE obj.kind = "None" ->
            Fail(Exc("TypeError", <<"'NoneType' object is not subscriptable">>, "main"))
      [] obj.kind = "dict" /\ key \notin obj.keys -> Fail(Exc("KeyError", <<key>>, "main"))
      [] OTHER -> Ok(obj[key])

\* Line 79: params["data_ingestion"]["test_size"].
TestSizeOf(p) ==
    LET a == GetItem(p, "data_ingestion")
    IN  IF a.ok THEN GetItem(a.val, "test_size") ELSE a

(***************************************************************************)
(* DataFrames: named columns, index labels, row-major cells.               *)
(***************************************************************************)
NoDF == [kind |-> "none"]

DF(columns, index, data) ==
    [kind |-> "df", columns |-> columns, index |-> index, data |-> data]

\* Line 44: pd.read_csv of a well-formed document; the index is RangeIndex 0..n-1.
ReadCsv(doc) == DF(doc.header, [i \in DOMAIN doc.lines |-> i - 1], doc.lines)

\* Line 56: the labels handed to DataFrame.drop.
DropLabels == <<"Unnamed: 2", "Unnamed: 3", "Unnamed: 4">>

\* A faulty variant of RenameMap, for C10: the two new names swapped.
RenameMapSwapped(c) ==
    CASE c = "v1" -> "text" [] c = "v2" -> "target" [] OTHER -> c

\* Line 57: the mapping handed to DataFrame.rename.
RenameMap(c) ==
    CASE c = "v1" -> "target" [] c = "v2" -> "text" [] OTHER -> c

\* DataFrame.drop(columns=labels): KeyError when a label is absent (errors="raise").
Drop(d, labels) ==
    LET absent == SelectSeq(labels, LAMBDA c : c \notin Range(d.columns))
        pos == SelectSeq([i \in DOMAIN d.columns |-> i],
                         LAMBDA i : d.columns[i] \notin Range(labels))
    IN  IF absent # <<>>
        THEN Fail(Exc("KeyError", absent \o <<"not found in axis">>, "preprocess_data"))
        ELSE Ok(DF([j \in DOMAIN pos |-> d.columns[pos[j]]], d.index,
                   [r \in DOMAIN d.data |-> [j \in DOMAIN pos |-> d.data[r][pos[j]]]]))

\* DataFrame.rename(columns=mapping): labels that are absent are ignored
\* (errors="ignore" is the default), the others are replaced in place.
Rename(d) == DF([j \in DOMAIN d.columns |-> RenameMap(d.columns[j])], d.index, d.data)

\* Lines 56-57 of preprocess_data.
PreprocessOutcome(d) ==
    LET dropped == Drop(d, DropLabels)
    IN  IF dropped.ok THEN Ok(Rename(dropped.val)) ELSE dropped

(***************************************************************************)
(* train_test_split(final_df, test_size=test_size, random_state=2).        *)
(***************************************************************************)
Ceil(a, b) == (a + b - 1) \div b

\* A faulty variant of ValidateShuffleSplit, for C6: n_test rounded down.
ValidateShuffleSplitFloor(n, ts) ==
    IF ts.num <= 0 \/ ts.num >= ts.den
    THEN Fail(Exc("ValueError", <<"test_size should be in the (0, 1) range">>, "train_test_split"))
    ELSE LET n_test == (ts.num * n) \div ts.den
         IN  IF n - n_test = 0
             THEN Fail(Exc("ValueError", <<"the resulting train set will be empty">>,
                           "train_test_split"))
             ELSE Ok([n_train |-> n - n_test, n_test |-> n_test])

\* The library's size rule for a float test_size and no train_size:
\* n_test = ceil(test_size * n), n_train = n - n_test, and an empty train set is refused.
ValidateShuffleSplit(n, ts) ==
    IF ts.num <= 0 \/ ts.num >= ts.den
    THEN Fail(Exc("ValueError", <<"test_size should be in the (0, 1) range">>, "train_test_split"))
    ELSE LET n_test == Ceil(ts.num * n, ts.den)
         IN  IF n - n_test = 0
             THEN Fail(Exc("ValueError", <<"the resulting train set will be empty">>,
                           "train_test_split"))
             ELSE Ok([n_train |-> n - n_test, n_test |-> n_test])

Perms(n) == {p \in [1..n -> 1..n] : \A i, j \in 1..n : p[i] = p[j] => i = j}

NoRng == [kind |-> "unset"]

\* A faulty variant of SplitPerms, for C8: no random_state, any permutation in any call.
SplitPermsUnseeded(n) == Perms(n)

\* Line 85, random_state=2: every call seeds a fresh generator with 2, so the
\* permutation of n rows is one fixed permutation (any one; drawn at the first split).
SplitPerms(n) == IF rng.kind = "unset" THEN Perms(n) ELSE {rng.perm}

\* DataFrame.iloc[positions]: rows in the order given, with their index labels.
Take(d, positions) ==
    DF(d.columns, [i \in DOMAIN positions |-> d.index[positions[i]]],
       [i \in DOMAIN positions |-> d.data[positions[i]]])

\* A faulty variant of SplitBy, for C5: the train slice starts one entry early.
SplitByOverlapping(d, sizes, perm) ==
    [train |-> Take(d, SubSeq(perm, sizes.n_test, sizes.n_test + sizes.n_train - 1)),
     test |-> Take(d, SubSeq(perm, 1, sizes.n_test))]

\* The first n_test entries of the permutation are the test rows, the rest the train rows.
SplitBy(d, sizes, perm) ==
    [train |-> Take(d, SubSeq(perm, sizes.n_test + 1, sizes.n_test + sizes.n_train)),
     test |-> Take(d, SubSeq(perm, 1, sizes.n_test))]

(***************************************************************************)
(* save_data.                                                              *)
(***************************************************************************)
\* DataFrame.to_csv(index=False): the header line and the rows, without the index.
ToCsv(d) == [header |-> d.columns, lines |-> d.data]

\* Path.write_text: the file is replaced by the text.
WriteText(old, text) == [exists |-> TRUE, header |-> text.header, lines |-> text.lines]

\* A faulty variant of StageAfter, for C7: the fetch placed before load_params.
StageAfterFetchFirst(s) ==
    CASE s = "main" -> "load_data"
      [] s = "load_data" -> "load_params"
      [] s = "load_params" -> "test_size"
      [] s = "test_size" -> "preprocess_data"
      [] s = "preprocess_data" -> "train_test_split"
      [] s = "train_test_split" -> "save_data"
      [] OTHER -> "idle"

\* Lines 78-86: the order of the steps in main's try block.
StageAfter(s) ==
    CASE s = "main" -> "load_params"
      [] s = "load_params" -> "test_size"
      [] s = "test_size" -> "load_data"
      [] s = "load_data" -> "preprocess_data"
      [] s = "preprocess_data" -> "train_test_split"
      [] s = "train_test_split" -> "save_data"
      [] OTHER -> "idle"

(***************************************************************************)
(* The state before the module is imported.  data/raw may hold anything.   *)
(***************************************************************************)
InitialFs ==
    {[raw_dir |-> FALSE, train |-> NoFile, test |-> NoFile],
     [raw_dir |-> TRUE, train |-> NoFile, test |-> NoFile],
     [raw_dir |-> TRUE, train |-> StaleFile, test |-> StaleFile]}

Init ==
    /\ pc = "unloaded"
    /\ handlers = <<>>
    /\ reloaded = FALSE
    /\ paramsFile = Unread
    /\ remote = Unread
    /\ rng = NoRng
    /\ fs \in InitialFs
    /\ params = None
    /\ test_size = None
    /\ df = NoDF
    /\ final_df = NoDF
    /\ train_df = NoDF
    /\ test_df = NoDF
    /\ exc = NoExc
    /\ log = <<>>
    /\ stdout = <<>>
    /\ calls = <<>>
    /\ done = <<>>
    /\ wrote = {}
    /\ firstOut = [kind |-> "none"]
    /\ reruns = FALSE

(***************************************************************************)
(* Lines 7-26: the module-level logging setup, executed at import and      *)
(* again whenever the module is executed again in the same process.        *)
(***************************************************************************)
ModuleSetup ==
    /\ pc \in {"unloaded", "idle"}
    /\ reloaded' = (pc = "idle")
    /\ handlers' = AddHandlers(handlers)
    /\ pc' = "idle"
    /\ UNCHANGED <<paramsFile, remote, rng, fs, run_locals, exc, log, stdout, calls,
                   done, wrote, firstOut, reruns>>

(***************************************************************************)
(* main().                                                                 *)
(***************************************************************************)
\* Line 76: a call of main; its locals, and what is recorded of a run, start empty.
StartMain ==
    /\ pc = "idle"
    /\ pc' = StageAfter("main")
    /\ params' = None
    /\ test_size' = None
    /\ df' = NoDF
    /\ final_df' = NoDF
    /\ train_df' = NoDF
    /\ test_df' = NoDF
    /\ exc' = NoExc
    /\ log' = <<>>
    /\ stdout' = <<>>
    /\ calls' = <<>>
    /\ done' = <<>>
    /\ wrote' = {}
    /\ UNCHANGED <<handlers, reloaded, paramsFile, remote, rng, fs, firstOut, reruns>>

\* An exception e leaves helper fn (or main's own code) for main's handler.
Raise(fn, e) ==
    /\ exc' = e
    /\ log' = LogRaise(log, fn, e)
    /\ pc' = "except"

\* Line 78 and lines 29-40.
LoadParams ==
    /\ pc = "load_params"
    /\ \E file \in (IF paramsFile.kind = "unread" THEN ParamsFiles ELSE {paramsFile}) :
          /\ paramsFile' = file
          /\ calls' = Append(calls, "load_params")
          /\ LET out == LoadParamsOutcome(file)
             IN  IF out.ok
                 THEN /\ params' = out.val
                      /\ log' = Emit(log, "DEBUG", "load_params",
                                     "Parameters retrieved from %s", <<"params.yaml">>)
                      /\ done' = Append(done, "load_params")
                      /\ pc' = StageAfter("load_params")
                      /\ exc' = exc
                 ELSE /\ Raise("load_params", out.exc)
                      /\ UNCHANGED <<params, done>>
    /\ UNCHANGED <<handlers, reloaded, remote, rng, fs, test_size, df, final_df, train_df,
                   test_df, stdout, wrote, firstOut, reruns>>

\* Line 79.
ExtractTestSize ==
    /\ pc = "test_size"
    /\ LET out == TestSizeOf(params)
       IN  IF out.ok
           THEN /\ test_size' = out.val
                /\ pc' = StageAfter("test_size")
                /\ UNCHANGED <<exc, log>>
           ELSE /\ Raise("main", out.exc)
                /\ UNCHANGED test_size
    /\ UNCHANGED <<handlers, reloaded, paramsFile, remote, rng, fs, params, df, final_df,
                   train_df, test_df, stdout, calls, done, wrote, firstOut, reruns>>

\* Lines 81-82 and lines 42-52.  The fetch may fail on the network in any run.
LoadData ==
    /\ pc = "load_data"
    /\ calls' = Append(calls, "load_data")
    /\ \/ /\ Raise("load_data", Exc("URLError", <<"connection failed">>, "load_data"))
          /\ UNCHANGED <<remote, df, done>>
       \/ \E doc \in (IF remote.kind = "unread" THEN Documents ELSE {remote}) :
             /\ remote' = doc
             /\ IF doc.kind = "malformed"
                THEN /\ Raise("load_data",
                              Exc("ParserError", <<"Error tokenizing data">>, "load_data"))
                     /\ UNCHANGED <<df, done>>
                ELSE /\ df' = ReadCsv(doc)
                     /\ log' = Emit(log, "DEBUG", "load_data", "Data loaded from %s",
                                    <<"data_url">>)
                     /\ done' = Append(done, "load_data")
                     /\ pc' = StageAfter("load_data")
                     /\ exc' = exc
    /\ UNCHANGED <<handlers, reloaded, paramsFile, rng, fs, params, test_size, final_df,
                   train_df, test_df, stdout, wrote, firstOut, reruns>>

\* Line 83 and lines 54-62.
Preprocess ==
    /\ pc = "preprocess_data"
    /\ calls' = Append(calls, "preprocess_data")
    /\ LET out == PreprocessOutcome(df)
       IN  IF out.ok
           THEN /\ final_df' = out.val
                /\ log' = Emit(log, "DEBUG", "preprocess_data",
                               "Data preprocessing completed", <<>>)
                /\ done' = Append(done, "preprocess_data")
                /\ pc' = StageAfter("preprocess_data")
                /\ exc' = exc
           ELSE /\ Raise("preprocess_data", out.exc)
                /\ UNCHANGED <<final_df, done>>
    /\ UNCHANGED <<handlers, reloaded, paramsFile, remote, rng, fs, params, test_size, df,
                   train_df, test_df, stdout, wrote, firstOut, reruns>>

\* Line 85.
Split ==
    /\ pc = "train_test_split"
    /\ calls' = Append(calls, "train_test_split")
    /\ LET n == Len(final_df.data)
           sizes == ValidateShuffleSplit(n, test_size)
       IN  IF sizes.ok
           THEN \E perm \in SplitPerms(n) :
                   /\ rng' = [kind |-> "perm", perm |-> perm]
                   /\ train_df' = SplitBy(final_df, sizes.val, perm).train
                   /\ test_df' = SplitBy(final_df, sizes.val, perm).test
                   /\ done' = Append(done, "train_test_split")
                   /\ pc' = StageAfter("train_test_split")
                   /\ UNCHANGED <<exc, log>>
           ELSE /\ Raise("train_test_split", sizes.exc)
                /\ UNCHANGED <<rng, train_df, test_df, done>>
    /\ UNCHANGED <<handlers, reloaded, paramsFile, remote, fs, params, test_size, df,
                   final_df, stdout, wrote, firstOut, reruns>>

\* Line 86 and lines 64-73.  mkdir and either write may fail on the file system;
\* a write that fails leaves its file as it was.
SaveData ==
    /\ pc = "save_data"
    /\ calls' = Append(calls, "save_data")
    /\ \E failure \in {"none", "train.csv", "test.csv"}
                          \cup (IF fs.raw_dir THEN {} ELSE {"mkdir"}) :
          LET made == [fs EXCEPT !.raw_dir = TRUE]
              one == [made EXCEPT !.train = WriteText(fs.train, ToCsv(train_df))]
              two == [one EXCEPT !.test = WriteText(fs.test, ToCsv(test_df))]
              e == Exc("OSError", <<"cannot write", failure>>, "save_data")
          IN  CASE failure = "mkdir" ->
                      /\ Raise("save_data", e)
                      /\ UNCHANGED <<fs, wrote, done, firstOut, reruns>>
                [] failure = "train.csv" ->
                      /\ fs' = made
                      /\ Raise("save_data", e)
                      /\ UNCHANGED <<wrote, done, firstOut, reruns>>
                [] failure = "test.csv" ->
                      /\ fs' = one
                      /\ wrote' = {"train.csv"}
                      /\ Raise("save_data", e)
                      /\ UNCHANGED <<done, firstOut, reruns>>
                [] OTHER ->
                      /\ fs' = two
                      /\ wrote' = {"train.csv", "test.csv"}
                      /\ log' = Emit(log, "DEBUG", "save_data",
                                     "Train and test data saved to %s", <<"data/raw">>)
                      /\ done' = Append(done, "save_data")
                      /\ firstOut' = IF firstOut.kind = "none"
                                     THEN [kind |-> "files", train |-> two.train,
                                           test |-> two.test]
                                     ELSE firstOut
                      /\ reruns' = (firstOut.kind = "files")
                      /\ pc' = StageAfter("save_data")
                      /\ exc' = exc
    /\ UNCHANGED <<handlers, reloaded, paramsFile, remote, rng, run_locals, stdout>>

\* Lines 87-89: the handler of main; after it main returns.  An exception the
\* except clause does not match leaves main.
MainExcept ==
    /\ pc = "except"
    /\ IF Catches(exc.type)
       THEN /\ log' = Emit(log, "ERROR", "main",
                           "Failed to complete the data ingestion process: %s", exc.msg)
            /\ stdout' = Append(stdout, <<"Error: ">> \o exc.msg)
            /\ pc' = "idle"
       ELSE /\ pc' = "crashed"
            /\ UNCHANGED <<log, stdout>>
    /\ UNCHANGED <<handlers, reloaded, paramsFile, remote, rng, fs, run_locals, exc, calls,
                   done, wrote, firstOut, reruns>>

Next ==
    \/ ModuleSetup
    \/ StartMain
    \/ LoadParams
    \/ ExtractTestSize
    \/ LoadData
    \/ Preprocess
    \/ Split
    \/ SaveData
    \/ MainExcept

Spec == Init /\ [][Next]_vars

(***************************************************************************)
(* Properties.                                                             *)
(***************************************************************************)
Order == <<"load_params", "load_data", "preprocess_data", "train_test_split", "save_data">>

IsPrefix(s, t) == Len(s) <= Len(t) /\ \A i \in DOMAIN s : s[i] = t[i]

\* main has been called and has returned.
RunOver == pc = "idle" /\ calls # <<>>

Failed == exc.type # "none"

WroteBoth == wrote = {"train.csv", "test.csv"}

ValidFraction(ts) == ts.kind = "float" /\ 0 < ts.num /\ ts.num < ts.den

MainRecords == {i \in DOMAIN log : log[i].by = "main"}

StageErrors == {i \in DOMAIN log : log[i].by # "main" /\ log[i].level = "ERROR"}

Count(s, x) == Cardinality({i \in DOMAIN s : s[i] = x})

SameRows(s, t) == \A x \in Range(s) \cup Range(t) : Count(s, x) = Count(t, x)

\* C1: a dataset without v1 or without v2 makes the run (in which no other step
\* fails) fail in preprocess_data with a missing-column KeyError, and the run
\* writes neither output file.
C1_MissingV1V2Fails ==
    (RunOver /\ df.kind = "df" /\ ~({"v1", "v2"} \subseteq Range(df.columns))
        /\ exc.origin \in {"none", "preprocess_data"})
        => /\ exc.type = "KeyError"
           /\ exc.origin = "preprocess_data"
           /\ wrote = {}

\* C2: whatever a step raises is caught once by main: one ERROR record of main
\* with the exception's message, one printed line "Error: <message>", and main
\* returns; nothing leaves main.
C2_CaughtOnceInMain ==
    /\ pc # "crashed"
    /\ pc = "except" => Failed /\ MainRecords = {} /\ stdout = <<>>
    /\ (pc = "idle" /\ Failed) =>
          /\ MainRecords = {Len(log)}
          /\ log[Len(log)].level = "ERROR"
          /\ log[Len(log)].arg = exc.msg
          /\ stdout = << <<"Error: ">> \o exc.msg >>
    /\ ~Failed => MainRecords = {} /\ stdout = <<>>

C2_Witness == RunOver /\ exc.type = "ValueError" /\ Len(stdout) = 1

\* C3: with a params.yaml that is not YAML, a run ends in load_params: load_data
\* is not called, the document is never fetched and data/raw is left as it was.
C3_MalformedYamlStopsBeforeFetch ==
    paramsFile.kind = "malformed" =>
        /\ "load_data" \notin Range(calls)
        /\ remote.kind = "unread"
        /\ wrote = {}
        /\ fs \in InitialFs
        /\ RunOver => exc.type = "YAMLError"

C3_Witness == RunOver /\ paramsFile.kind = "malformed" /\ Failed

\* C4 as stated: in every failing run a stage-level ERROR record precedes main's.
C4_EveryFailureLoggedByStage ==
    (RunOver /\ Failed) =>
        \E i \in StageErrors : \E j \in MainRecords : i < j /\ log[i].by = exc.origin

\* The failures a helper's own except clause matches.
LoggedByHelper(e) ==
    \/ e.origin = "load_params" /\ e.type \in {"FileNotFoundError", "YAMLError"}
    \/ e.origin \in {"load_data", "preprocess_data", "save_data"}

\* C4 as amended: a failure that a helper's own except clause matches is logged
\* once at ERROR level by that helper before main logs the same exception; any
\* other failure (another error of load_params, the look-up of test_size, the
\* split) reaches main with no stage-level record; nothing is retried.
C4_HelperLogsWhatItCatches ==
    (RunOver /\ Failed) =>
        /\ MainRecords = {Len(log)}
        /\ log[Len(log)].arg = exc.msg
        /\ IF LoggedByHelper(exc)
           THEN /\ StageErrors = {Len(log) - 1}
                /\ log[Len(log) - 1].by = exc.origin
                /\ exc.type # "FileNotFoundError" => log[Len(log) - 1].arg = exc.msg
           ELSE StageErrors = {}
        /\ Count(calls, exc.origin) <= 1

C4_Witness == RunOver /\ exc.origin = "preprocess_data" /\ StageErrors # {}

\* C5 as stated: the lines of train.csv and of test.csv are disjoint and
\* together are the rows of the normalized dataset.
C5_FilesDisjointByContent ==
    WroteBoth =>
        /\ Range(fs.train.lines) \cap Range(fs.test.lines) = {}
        /\ SameRows(fs.train.lines \o fs.test.lines, final_df.data)

\* C5 as amended: the two files hold disjoint selections of the row positions of
\* the normalized dataset, every position in exactly one of them, so that as
\* multisets of rows the files together equal the normalized dataset.
C5_PartitionOfRowPositions ==
    WroteBoth =>
        /\ Range(train_df.index) \cap Range(test_df.index) = {}
        /\ Range(train_df.index) \cup Range(test_df.index) = Range(final_df.index)
        /\ Len(train_df.index) + Len(test_df.index) = Len(final_df.index)
        /\ \A i \in DOMAIN fs.train.lines :
              fs.train.lines[i] = final_df.data[train_df.index[i] + 1]
        /\ \A i \in DOMAIN fs.test.lines :
              fs.test.lines[i] = final_df.data[test_df.index[i] + 1]
        /\ Len(fs.train.lines) = Len(train_df.index)
        /\ Len(fs.test.lines) = Len(test_df.index)
        /\ SameRows(fs.train.lines \o fs.test.lines, final_df.data)
        /\ fs.train.header = final_df.columns
        /\ fs.test.header = final_df.columns

C5_Witness ==
    /\ WroteBoth
    /\ Len(final_df.data) = 3
    /\ Range(fs.train.lines) \cap Range(fs.test.lines) # {}

\* C6 as stated: with a valid fraction and the other steps succeeding the run
\* yields partitions with |train| + |test| = n and |test| within one row of f*n.
C6_AnyDatasetIsSplit ==
    (RunOver /\ ValidFraction(test_size) /\ final_df.kind = "df"
        /\ exc.origin # "save_data") =>
        /\ train_df.kind = "df"
        /\ Len(train_df.data) + Len(test_df.data) = Len(final_df.data)
        /\ Len(test_df.data) * test_size.den >= test_size.num * Len(final_df.data)
        /\ (Len(test_df.data) - 1) * test_size.den < test_size.num * Len(final_df.data)

\* C6 as amended: when ceil(f*n) < n the split yields |test| = ceil(f*n) rows and
\* |train| = n - |test| >= 1 rows; when ceil(f*n) = n (so for every n <= 1) the
\* split raises ValueError and the run writes nothing.
C6_SplitSizes ==
    /\ train_df.kind = "df" =>
          /\ ValidFraction(test_size)
          /\ Len(train_df.data) + Len(test_df.data) = Len(final_df.data)
          /\ Len(test_df.data) * test_size.den >= test_size.num * Len(final_df.data)
          /\ (Len(test_df.data) - 1) * test_size.den < test_size.num * Len(final_df.data)
          /\ Len(train_df.data) >= 1
    /\ (RunOver /\ ValidFraction(test_size) /\ final_df.kind = "df"
           /\ train_df.kind = "none") =>
          /\ exc.type = "ValueError"
          /\ exc.origin = "train_test_split"
          /\ (\/ Len(final_df.data) = 0
              \/ (Len(final_df.data) - 1) * test_size.den
                    < test_size.num * Len(final_df.data))
          /\ wrote = {}

C6_Witness ==
    /\ WroteBoth
    /\ Len(final_df.data) = 3
    /\ test_size.num = 2
    /\ Len(fs.test.lines) = 2
    /\ Len(fs.train.lines) = 1

\* C7: the steps are started in the order load_params, load_data,
\* preprocess_data, train_test_split, save_data, each at most once in a run and
\* only when every earlier one has completed; the files are written only after
\* all of them (and the look-up of test_size) have succeeded.
C7_StagesInOrder ==
    /\ IsPrefix(calls, Order)
    /\ IsPrefix(done, calls)
    /\ Len(calls) <= Len(done) + 1
    /\ Failed => pc \in {"except", "idle"}
    /\ (Failed /\ exc.origin # "main") =>
          Len(calls) = Len(done) + 1 /\ calls[Len(calls)] = exc.origin
    /\ (Failed /\ exc.origin = "main") => calls = <<"load_params">> /\ done = calls
    /\ "load_data" \in Range(calls) => test_size.kind = "float"
    /\ wrote # {} =>
          /\ calls = Order
          /\ IsPrefix(SubSeq(Order, 1, 4), done)
          /\ test_size.kind = "float"
          /\ train_df.kind = "df"

C7_Witness == WroteBoth /\ done = Order

\* C8: every complete run of a behaviour (same document, same test_size, seed 2)
\* leaves the same two files as the first complete run did, whatever data/raw
\* held before.
C8_RerunsWriteTheSameFiles ==
    WroteBoth =>
        /\ firstOut.kind = "files"
        /\ fs.train = firstOut.train
        /\ fs.test = firstOut.test
        /\ fs.train.header = final_df.columns
        /\ Len(fs.train.lines) + Len(fs.test.lines) = Len(final_df.data)

C8_Witness == WroteBoth /\ reruns /\ Len(final_df.data) = 3 /\ RunOver

\* C9: once the module is set up, however often, the logger holds exactly the
\* console handler and the file handler, and every record goes once to each.
C9_HandlersAttachedOnce ==
    pc # "unloaded" =>
        /\ handlers = <<StreamHandler, FileHandler>>
        /\ \A i \in DOMAIN log : log[i].sinks = <<"stream", "file">>

C9_Witness == reloaded /\ RunOver /\ Len(log) >= 4

\* C10: for a dataset with v1, v2 and the three Unnamed columns, preprocess_data
\* returns the columns without the three Unnamed ones, v1 as target and v2 as
\* text, in the same order, with every cell, the rows and their order unchanged.
Kept(d) == SelectSeq([i \in DOMAIN d.columns |-> i],
                     LAMBDA i : d.columns[i] \notin
                                   {"Unnamed: 2", "Unnamed: 3", "Unnamed: 4"})

C10_PreprocessResult ==
    (final_df.kind = "df" /\ {"v1", "v2"} \subseteq Range(df.columns)) =>
        /\ Len(final_df.columns) = Len(df.columns) - 3
        /\ Range(final_df.columns) =
              (Range(df.columns) \ {"Unnamed: 2", "Unnamed: 3", "Unnamed: 4", "v1", "v2"})
                  \cup {"target", "text"}
        /\ final_df.index = df.index
        /\ Len(final_df.data) = Len(df.data)
        /\ \A j \in DOMAIN final_df.columns :
              LET c == df.columns[Kept(df)[j]]
              IN  /\ final_df.columns[j] =
                        (IF c = "v1" THEN "target" ELSE IF c = "v2" THEN "text" ELSE c)
                  /\ \A r \in DOMAIN df.data :
                        final_df.data[r][j] = df.data[r][Kept(df)[j]]

C10_Witness ==
    /\ final_df.kind = "df"
    /\ final_df.columns = <<"target", "text", "extra">>
    /\ Len(final_df.data) = 2
    /\ final_df.data[1] # final_df.data[2]

====
